---------------------------- MODULE Spec2Model ----------------------------
(***************************************************************************)
(* A model of the Family Cat Photos request handler                        *)
(* (src/src/handlers/photos.py): one Lambda function that routes an HTTP   *)
(* gateway event, authenticates the caller by a family identifier, and     *)
(* reads and writes a DynamoDB table and an S3 bucket.                     *)
(*                                                                         *)
(* Python values are modelled as follows.  A str is a TLA+ string, and the *)
(* string operators of the code (startswith, slicing, rstrip, split) are   *)
(* computed on it character by character.  None, and a key missing from a  *)
(* dict where the code reads it with .get(), is the value None below, which*)
(* is outside every set of inputs.  A dict is a function whose DOMAIN is   *)
(* the set of its keys; where the code tests a dict or a list only for     *)
(* being empty ("if params:", "event.get('cookies') or []"), None and the  *)
(* empty dict or list take the same branch and are held as the empty one.  *)
(***************************************************************************)
EXTENDS Naturals, Sequences, FiniteSets, TLC

VARIABLES
    allowed,    \* ALLOWED_FAMILY_IDS, fixed when the module is imported
    table,      \* the DynamoDB table: a set of items
    bucket,     \* the S3 bucket: a set of stored objects
    clock,      \* the wall clock read by datetime.now()
    uuids,      \* how many uuid4() values have been drawn
    pc,         \* per invocation: the place of the handler's control
    req,        \* per invocation: the event being handled
    loc,        \* per invocation: the handler's local variables
    resp,       \* per invocation: the response returned
    calls,      \* per invocation: the store operations it has issued
    arg,        \* input of a function studied on its own
    res         \* its result

vars == <<allowed, table, bucket, clock, uuids, pc, req, loc, resp, calls, arg, res>>

-----------------------------------------------------------------------------
(* Python values *)

None == "<None>"

\* bool(v) for v a str or None
Truthy(v) == v # None /\ v # ""

\* a or b
Or(a, b) == IF Truthy(a) THEN a ELSE b

\* d.get(k) for a dict d
Get(d, k) == IF k \in DOMAIN d THEN d[k] ELSE None

\* s.startswith(prefix)
StartsWith(s, prefix) ==
    Len(s) >= Len(prefix) /\ SubSeq(s, 1, Len(prefix)) = prefix

\* s.endswith(suffix)
EndsWith(s, suffix) ==
    Len(s) >= Len(suffix) /\ SubSeq(s, Len(s) - Len(suffix) + 1, Len(s)) = suffix

\* s[n:]
DropPrefix(s, n) == SubSeq(s, n + 1, Len(s))

\* s.rstrip("/")
RECURSIVE RStripSlash(_)
RStripSlash(s) ==
    IF Len(s) > 0 /\ SubSeq(s, Len(s), Len(s)) = "/"
    THEN RStripSlash(SubSeq(s, 1, Len(s) - 1))
    ELSE s

\* the index of the first "/" of s at or after i, or Len(s) + 1
RECURSIVE NextSlash(_, _)
NextSlash(s, i) ==
    IF i > Len(s) THEN Len(s) + 1
    ELSE IF SubSeq(s, i, i) = "/" THEN i
    ELSE NextSlash(s, i + 1)

\* [segment for segment in s.split("/") if segment]
RECURSIVE Segments(_)
Segments(s) ==
    IF Len(s) = 0 THEN <<>>
    ELSE LET j == NextSlash(s, 1) IN
         IF j = 1 THEN Segments(DropPrefix(s, 1))
         ELSE <<SubSeq(s, 1, j - 1)>> \o Segments(DropPrefix(s, j - 1))

-----------------------------------------------------------------------------
(* Request normalisation and authentication *)

\* handler, lines 211-222: the path the routes are matched against
NormalizePathBroken(raw_path, stage) ==
    LET path0 == Or(raw_path, "/")
        stage_prefix == "/" \o stage
        path1 == IF Truthy(stage) /\ stage # "$default"
                 THEN IF path0 = stage_prefix THEN "/"
                      ELSE IF StartsWith(path0, stage_prefix)
                           THEN Or(DropPrefix(path0, Len(stage_prefix)), "/")
                           ELSE path0
                 ELSE path0
    IN Or(RStripSlash(path1), "/")

NormalizePath(raw_path, stage) ==
    LET path0 == Or(raw_path, "/")
        stage_prefix == "/" \o stage
        path1 == IF Truthy(stage) /\ stage # "$default"
                 THEN IF path0 = stage_prefix THEN "/"
                      ELSE IF StartsWith(path0, stage_prefix \o "/")
                           THEN Or(DropPrefix(path0, Len(stage_prefix)), "/")
                           ELSE path0
                 ELSE path0
    IN Or(RStripSlash(path1), "/")

\* _parse_query_string: the structured parameters when there are any (a None
\* value dropped), else the raw query string; parse_qs drops a blank value
\* and the code keeps the first value of each key.  rawQueryString is held
\* as the sequence of its <<key, value>> pairs.
RECURSIVE FirstValues(_)
FirstValues(pairs) ==
    IF pairs = <<>> THEN << >>
    ELSE LET rest == FirstValues(Tail(pairs))
             k == Head(pairs)[1]
             v == Head(pairs)[2]
         IN IF v = "" THEN rest
            ELSE (k :> v) @@ [x \in DOMAIN rest \ {k} |-> rest[x]]

ParseQueryString(event) ==
    LET params == event.queryStringParameters
        raw == event.rawQueryString
    IN IF DOMAIN params # {}
       THEN [k \in {x \in DOMAIN params : params[x] # None} |-> params[k]]
       ELSE IF raw # <<>> THEN FirstValues(raw)
       ELSE << >>

\* _parse_cookies: the event's cookie list, then the Cookie header, each
\* loaded into the jar in turn so that a later cookie of the same name
\* replaces an earlier one.  A raw cookie string is held as the sequence of
\* its <<name, value>> morsels.
RECURSIVE LoadCookies(_, _)
LoadCookies(jar, morsels) ==
    IF morsels = <<>> THEN jar
    ELSE LET k == Head(morsels)[1]
             v == Head(morsels)[2]
         IN LoadCookies((k :> v) @@ [x \in DOMAIN jar \ {k} |-> jar[x]], Tail(morsels))

RECURSIVE LoadAll(_, _)
LoadAll(jar, cookie_list) ==
    IF cookie_list = <<>> THEN jar
    ELSE LoadAll(LoadCookies(jar, Head(cookie_list)), Tail(cookie_list))

ParseCookies(event) ==
    LET headers == event.headers
        header == IF "cookie" \in DOMAIN headers /\ headers["cookie"] # <<>>
                  THEN headers["cookie"]
                  ELSE IF "Cookie" \in DOMAIN headers THEN headers["Cookie"]
                  ELSE <<>>
        cookie_list == IF header # <<>>
                       THEN event.cookies \o <<header>> ELSE event.cookies
    IN LoadAll(<< >>, cookie_list)

\* _family_id_from_event
FamilyIdFromEventNoOrder(event, form_fields) ==
    LET headers == event.headers
        family_id == Or(Get(headers, "x-family-id"), Get(headers, "X-Family-Id"))
        cookies == ParseCookies(event)
        query == ParseQueryString(event)
    IN IF Truthy(Get(cookies, "family_id")) THEN cookies["family_id"]
       ELSE IF Truthy(family_id) THEN family_id
       ELSE IF Truthy(Get(query, "family_id")) THEN query["family_id"]
       ELSE IF Truthy(Get(form_fields, "family_id"))
            THEN form_fields["family_id"]
       ELSE None

FamilyIdFromEvent(event, form_fields) ==
    LET headers == event.headers
        family_id == Or(Get(headers, "x-family-id"), Get(headers, "X-Family-Id"))
        cookies == ParseCookies(event)
        query == ParseQueryString(event)
    IN IF Truthy(family_id) THEN family_id
       ELSE IF Truthy(Get(cookies, "family_id")) THEN cookies["family_id"]
       ELSE IF Truthy(Get(query, "family_id")) THEN query["family_id"]
       ELSE IF Truthy(Get(form_fields, "family_id"))
            THEN form_fields["family_id"]
       ELSE None

\* _validate_family_id: the identifier, or the PermissionError raised
ValidateFamilyIdOpen(allowed_ids, family_id) ==
    IF ~Truthy(family_id)
    THEN [ok |-> FALSE, error |-> "Missing family identifier"]
    ELSE [ok |-> TRUE, value |-> family_id]

ValidateFamilyId(allowed_ids, family_id) ==
    IF ~Truthy(family_id)
    THEN [ok |-> FALSE, error |-> "Missing family identifier"]
    ELSE IF allowed_ids # {} /\ family_id \notin allowed_ids
         THEN [ok |-> FALSE, error |-> "Family id not authorized"]
         ELSE [ok |-> TRUE, value |-> family_id]

\* _extract_family_id
ExtractFamilyId(allowed_ids, event, form_fields) ==
    ValidateFamilyId(allowed_ids, FamilyIdFromEvent(event, form_fields))

-----------------------------------------------------------------------------
(* Strings the handler converts *)

\* s.strip(), for the whitespace the inputs contain (the space)
RECURSIVE LStrip(_)
LStrip(s) ==
    IF Len(s) > 0 /\ SubSeq(s, 1, 1) = " " THEN LStrip(DropPrefix(s, 1)) ELSE s

RECURSIVE RStrip(_)
RStrip(s) ==
    IF Len(s) > 0 /\ SubSeq(s, Len(s), Len(s)) = " "
    THEN RStrip(SubSeq(s, 1, Len(s) - 1)) ELSE s

Strip(s) == LStrip(RStrip(s))

\* the characters of the inputs that urllib.parse.quote escapes (letters,
\* digits and "_.-~/" are left as they are)
PercentCodes ==
    (" " :> "%20") @@ ("%" :> "%25") @@ ("@" :> "%40") @@ ("=" :> "%3D") @@
    (";" :> "%3B") @@ ("?" :> "%3F") @@ ("#" :> "%23") @@ ("+" :> "%2B")

\* urllib.parse.quote(s)
RECURSIVE Quote(_)
Quote(s) ==
    IF Len(s) = 0 THEN ""
    ELSE LET c == SubSeq(s, 1, 1) IN
         (IF c \in DOMAIN PercentCodes THEN PercentCodes[c] ELSE c)
             \o Quote(DropPrefix(s, 1))

\* urllib.parse.unquote(s): a %XX sequence becomes its character
RECURSIVE Unquote(_)
Unquote(s) ==
    IF Len(s) = 0 THEN ""
    ELSE LET decoded == {c \in DOMAIN PercentCodes : StartsWith(s, PercentCodes[c])} IN
         IF decoded # {}
         THEN (CHOOSE c \in decoded : TRUE) \o Unquote(DropPrefix(s, 3))
         ELSE SubSeq(s, 1, 1) \o Unquote(DropPrefix(s, 1))

\* str(v) for v a str or None
Str(v) == IF v = None THEN "None" ELSE v

\* str(uuid.uuid4()): the n-th value drawn
Uuid(n) == "uuid-" \o ToString(n)

\* datetime.now(timezone.utc).isoformat() when the clock shows t
Timestamp(t) == "2024-01-01T00:00:0" \o ToString(t) \o "+00:00"

\* _content_type_to_extension
ContentTypeToExtension(content_type) ==
    LET mapping == ("image/jpeg" :> ".jpg") @@ ("image/png" :> ".png") @@
                   ("image/gif" :> ".gif") @@ ("image/heic" :> ".heic") @@
                   ("image/heif" :> ".heif")
        lower == IF content_type = "IMAGE/PNG" THEN "image/png" ELSE content_type
    IN IF ~Truthy(content_type) THEN ""
       ELSE IF lower \in DOMAIN mapping THEN mapping[lower] ELSE ""

PHOTO_BUCKET_NAME == "PhotoBucket"

UPLOAD_URL_TTL_SECONDS == 900

\* s3_client.generate_presigned_url(ClientMethod, Params, ExpiresIn): a URL
\* that names the operation, the bucket, the key and the lifetime
PresignedUrl(client_method, key) ==
    "https://" \o PHOTO_BUCKET_NAME \o ".s3.amazonaws.com/" \o key
        \o "?op=" \o client_method
        \o "&X-Amz-Expires=" \o ToString(UPLOAD_URL_TTL_SECONDS)

-----------------------------------------------------------------------------
(* Responses and pages *)

HTML_CONTENT_TYPE == "text/html; charset=utf-8"

\* _build_response: the HSTS header, then the caller's headers, then the
\* content type; the cookies only when there are any
BuildResponse(status_code, body, headers, content_type, cookies) ==
    [ statusCode |-> status_code,
      headers |-> (IF Truthy(content_type)
                   THEN ("Content-Type" :> content_type) ELSE << >>)
                  @@ headers
                  @@ ("Strict-Transport-Security" :>
                          "max-age=63072000; includeSubDomains; preload"),
      body |-> body,
      cookies |-> cookies ]

\* _build_response(status, {...}) with the defaults
JsonResponse(status_code, body) ==
    BuildResponse(status_code, body, << >>, "application/json", <<>>)

\* _build_response(status, html_body, content_type=HTML_CONTENT_TYPE)
HtmlResponse(status_code, page) ==
    BuildResponse(status_code, page, << >>, HTML_CONTENT_TYPE, <<>>)

\* the <figure> of one photo of the gallery
GalleryItem(item) ==
    [ src |-> "/photos/" \o Quote(item.photoId) \o "/content",
      title |-> Or(item.title, "Untitled cat photo"),
      description |-> Or(item.description, ""),
      uploaded_at |-> Or(item.uploadedAt, "") ]

\* _render_home_html: the document, held as what it shows and where its
\* forms post to
RenderHomeHtml(family_id, message, error, photos) ==
    IF Truthy(family_id)
    THEN [ view |-> "gallery",
           message |-> message, error |-> error,
           welcome |-> family_id,
           logout_action |-> "/session/logout",
           upload_action |-> "/photos/form-upload",
           upload_family_id |-> family_id,
           gallery |-> [i \in DOMAIN photos |-> GalleryItem(photos[i])] ]
    ELSE [ view |-> "login",
           message |-> message, error |-> error,
           login_action |-> "/session" ]

\* _cookie_attributes
CookieAttributes(event) ==
    LET headers == event.headers
        proto == Or(Or(Get(headers, "x-forwarded-proto"),
                       Get(headers, "X-Forwarded-Proto")), "http")
    IN "Path=/; HttpOnly; SameSite=Lax"
           \o (IF proto \in {"https", "HTTPS"} THEN "; Secure" ELSE "")

-----------------------------------------------------------------------------
(* The inputs *)

\* The family identifiers callers present and the environment may allow.
FamilyIds == {"fam1", "fam2"}

\* ALLOWED_FAMILY_IDS after lines 32-37: a set of non-empty, stripped strings.
AllowLists == SUBSET FamilyIds

\* What a caller can put in one of the places an identifier is read from:
\* nothing, the empty string, or an identifier.
IdValues == {None, ""} \cup FamilyIds

\* The invocations: "a" alone in the sequential specifications, "a" and "b"
\* where two requests are in flight together.
Procs == {"a", "b"}

\* An event as API Gateway delivers it (the fields the handler reads).
Event(method, raw_path, stage, headers, cookies, params, raw_query, body) ==
    [ method |-> method, rawPath |-> raw_path, stage |-> stage,
      headers |-> headers, cookies |-> cookies,
      queryStringParameters |-> params, rawQueryString |-> raw_query,
      body |-> body ]

NoBody == [kind |-> "none"]

\* The headers, cookies and query of an event that carries the identifier
\* values h (header), c (cookie) and q (query); None puts nothing there.
\* hdr_key is the spelling of the header; cookie_via says whether the cookie
\* comes in the event's cookie list or in a Cookie header; query_via whether
\* the query comes structured or raw.
IdHeaders(h, c, hdr_key, cookie_via) ==
    (IF h = None THEN << >> ELSE (hdr_key :> h))
    @@ (IF c # None /\ cookie_via = "header"
        THEN ("cookie" :> << <<"theme", "dark">>, <<"family_id", c>> >>)
        ELSE << >>)

IdCookies(c, cookie_via) ==
    IF c # None /\ cookie_via = "list"
    THEN << << <<"theme", "dark">> >>, << <<"family_id", c>> >> >>
    ELSE <<>>

IdParams(q, query_via) ==
    IF q # None /\ query_via = "params" THEN ("family_id" :> q) ELSE << >>

IdRawQuery(q, query_via) ==
    IF q # None /\ query_via = "raw"
    THEN << <<"status", "welcome">>, <<"family_id", q>> >> ELSE <<>>

IdFormFields(f) == IF f = None THEN << >> ELSE ("family_id" :> f)

-----------------------------------------------------------------------------
(* The state before any request *)

Idle == [p \in Procs |-> "idle"]
Nothing == [p \in Procs |-> << >>]

InitStores(allow_lists) ==
    /\ allowed \in allow_lists
    /\ table = {}
    /\ bucket = {}
    /\ clock = 1
    /\ uuids = 0
    /\ pc = Idle
    /\ req = Nothing
    /\ loc = Nothing
    /\ resp = Nothing
    /\ calls = [p \in Procs |-> {}]

storeVars == <<allowed, table, bucket, clock, uuids, pc, req, loc, resp, calls>>

-----------------------------------------------------------------------------
(* Authentication on its own: _extract_family_id applied to every          *)
(* combination of the four places and every allow-list.                    *)

AuthInputs ==
    { [ h |-> h, c |-> c, q |-> q, f |-> f,
        event |-> Event("GET", "/photos", None,
                        IdHeaders(h, c, hk, via), IdCookies(c, via),
                        IdParams(q, qvia), IdRawQuery(q, qvia), NoBody),
        form_fields |-> IdFormFields(f) ] :
      h \in IdValues, c \in IdValues, q \in IdValues, f \in IdValues,
      hk \in {"x-family-id", "X-Family-Id"}, via \in {"list", "header"},
      qvia \in {"params", "raw"} }

InitAuth ==
    /\ InitStores(AllowLists)
    /\ arg \in AuthInputs
    /\ res = [at |-> "start"]

\* family_id = _family_id_from_event(event, form_fields=form_fields)
Resolve ==
    /\ res.at = "start"
    /\ res' = [at |-> "resolved",
               family_id |-> FamilyIdFromEvent(arg.event, arg.form_fields)]
    /\ UNCHANGED <<storeVars, arg>>

\* return _validate_family_id(family_id)
Validate ==
    /\ res.at = "resolved"
    /\ res' = [at |-> "validated", family_id |-> res.family_id,
               outcome |-> ValidateFamilyId(allowed, res.family_id)]
    /\ UNCHANGED <<storeVars, arg>>

NextAuth == Resolve \/ Validate

SpecAuth == InitAuth /\ [][NextAuth]_vars

\* C8: the identifier resolved is the value of the first of header, cookie,
\* query, form field whose value is non-empty, and None when none is.
FirstNonEmpty(h, c, q, f) ==
    IF Truthy(h) THEN h
    ELSE IF Truthy(c) THEN c
    ELSE IF Truthy(q) THEN q
    ELSE IF Truthy(f) THEN f
    ELSE None

\* C8: in every resolved state the result is the first non-empty of the
\* four places in the order header, cookie, query, form field; it is None
\* exactly when all four are empty or absent.
C8_Precedence ==
    res.at # "start" =>
        /\ res.family_id = FirstNonEmpty(arg.h, arg.c, arg.q, arg.f)
        /\ (res.family_id = None) <=>
               (~Truthy(arg.h) /\ ~Truthy(arg.c) /\ ~Truthy(arg.q) /\ ~Truthy(arg.f))

\* A request with an empty header, a cookie and a different query value was
\* resolved to the cookie's value.
C8_Witness ==
    /\ res.at = "resolved"
    /\ arg.h = "" /\ arg.c = "fam2" /\ arg.q = "fam1" /\ arg.f = "fam1"
    /\ res.family_id = "fam2"

\* C2: validation rejects an empty or missing identifier; with a non-empty
\* allow-list it accepts exactly the members; with an empty allow-list it
\* accepts every non-empty identifier.
C2_Validation ==
    res.at = "validated" =>
        LET id == res.family_id
            out == res.outcome
        IN /\ ~Truthy(id) => ~out.ok
           /\ (Truthy(id) /\ allowed # {}) => (out.ok <=> id \in allowed)
           /\ (Truthy(id) /\ allowed = {}) => out.ok
           /\ out.ok => out.value = id

\* A non-empty identifier outside a non-empty allow-list was rejected.
C2_Witness ==
    /\ res.at = "validated"
    /\ allowed = {"fam1"}
    /\ res.family_id = "fam2"
    /\ ~res.outcome.ok

-----------------------------------------------------------------------------
(* Path normalisation on its own: the raw path "/" base tail under every   *)
(* stage of the request context.                                           *)

Stages == {None, "$default", "dev", "d"}
Bases == {"dev", "d"}
Tails == {"", "/", "//", "/session", "/session/", "/photos", "/photos/abc/content",
          "/dev", "/dev/", "ices", "x/photos", "-old/health"}

PathInputs ==
    { [ stage |-> s, base |-> b, tail |-> t, rawPath |-> "/" \o b \o t ] :
      s \in Stages, b \in Bases, t \in Tails }

InitPath ==
    /\ InitStores({{}})
    /\ arg \in PathInputs
    /\ res = [at |-> "start"]

Normalize ==
    /\ res.at = "start"
    /\ res' = [at |-> "normalized", path |-> NormalizePath(arg.rawPath, arg.stage)]
    /\ UNCHANGED <<storeVars, arg>>

\* the same request sent to a deployment without a stage: the path without
\* its first segment, and no stage in the request context
Unstaged ==
    /\ res.at = "normalized"
    /\ StartsWith(arg.tail, "/")
    /\ res' = [at |-> "compared", path |-> res.path,
               unstaged |-> NormalizePath(arg.tail, None)]
    /\ UNCHANGED <<storeVars, arg>>

NextPath == Normalize \/ Unstaged

SpecPath == InitPath /\ [][NextPath]_vars

\* a path with its trailing slashes removed ("/" when nothing is left)
Trimmed(path) == Or(RStripSlash(path), "/")

StageActive == Truthy(arg.stage) /\ arg.stage # "$default"

\* C9: with a non-default stage S, /S normalizes to /, /S/rest normalizes to
\* /rest (and to what /rest normalizes to without a stage), and a path that
\* only begins with the characters of /S keeps its first segment.
C9_StagePrefix ==
    /\ res.at # "start" =>
         IF StageActive /\ arg.base = arg.stage /\ arg.tail = ""
         THEN res.path = "/"
         ELSE IF StageActive /\ arg.base = arg.stage /\ StartsWith(arg.tail, "/")
         THEN res.path = Trimmed(arg.tail)
         ELSE res.path = Trimmed(arg.rawPath)
    /\ (res.at = "compared" /\ StageActive /\ arg.base = arg.stage) =>
         res.path = res.unstaged

\* /dev/session under stage dev became /session, and /devices under stage
\* dev stayed /devices.
C9_Witness ==
    /\ res.at = "compared"
    /\ arg.stage = "dev" /\ arg.rawPath = "/dev/session/"
    /\ res.path = "/session"

C9_WitnessUnchanged ==
    /\ res.at = "normalized"
    /\ arg.stage = "dev" /\ arg.rawPath = "/devices"
    /\ res.path = "/devices"

-----------------------------------------------------------------------------
(* The handler.  What an invocation does before its first call to a store  *)
(* is a function of the event, the allow-list, the clock and the next      *)
(* uuid: either the response, or the store call it goes on to with its     *)
(* local variables.                                                        *)

Respond(response) ==
    [next |-> "done", loc |-> << >>, resp |-> response, draws |-> FALSE]

CallStore(operation, locals, draws_uuid) ==
    [next |-> operation, loc |-> locals, resp |-> << >>, draws |-> draws_uuid]

\* _parse_form_data: (fields, files).  The body is held decoded: "none"
\* (no body), "urlencoded" (its <<key, value>> pairs), "multipart" (its
\* plain fields and its file parts), "json" or "malformed" text.
ParseFormData(event) ==
    LET headers == event.headers
        content_type == Or(Or(Get(headers, "content-type"),
                              Get(headers, "Content-Type")), "")
        body == event.body
        nothing == [fields |-> << >>, files |-> << >>]
    IN IF body.kind = "none" THEN nothing
       ELSE IF StartsWith(content_type, "application/x-www-form-urlencoded")
       THEN IF body.kind = "urlencoded"
            THEN [fields |-> FirstValues(body.pairs), files |-> << >>]
            ELSE nothing
       ELSE IF StartsWith(content_type, "multipart/form-data")
       THEN IF body.kind = "multipart"
            THEN [fields |-> body.fields, files |-> body.files]
            ELSE nothing
       ELSE nothing

\* what API Gateway answers when the handler raises an exception it does
\* not catch
Unhandled(exception) ==
    Respond([ statusCode |-> 500, headers |-> ("Content-Type" :> "application/json"),
              cookies |-> << >>, body |-> [message |-> "Internal Server Error"] ])

\* _extract_json_body: the payload with its Python type, or the ValueError
\* raised.  json.loads returns a dict for a JSON object ("json") and a list,
\* str, int or None for any other JSON text ("json_value").
ExtractJsonBody(event) ==
    LET body == event.body
    IN IF body.kind = "none" THEN [ok |-> TRUE, type |-> "dict", payload |-> << >>]
       ELSE IF body.kind = "json"
       THEN [ok |-> TRUE, type |-> "dict", payload |-> body.payload]
       ELSE IF body.kind = "json_value"
       THEN [ok |-> TRUE, type |-> body.type, payload |-> << >>]
       ELSE [ok |-> FALSE, error |-> "Invalid JSON body"]

\* _persist_photo_metadata, lines 678-694: the item handed to put_item; an
\* optional attribute is written only when its value is truthy
PersistItem(family_id, photo_id, object_key, title, description, content_type, taken_at, now) ==
    [ FamilyId |-> family_id, PhotoId |-> photo_id, ObjectKey |-> object_key,
      UploadedAt |-> Timestamp(now) ]
    @@ (IF Truthy(title) THEN ("Title" :> Str(title)) ELSE << >>)
    @@ (IF Truthy(description) THEN ("Description" :> Str(description)) ELSE << >>)
    @@ (IF Truthy(content_type) THEN ("ContentType" :> Str(content_type)) ELSE << >>)
    @@ (IF Truthy(taken_at) THEN ("TakenAt" :> Str(taken_at)) ELSE << >>)

\* _handle_home up to its query of the table
HandleHome(event) ==
    LET query == ParseQueryString(event)
        status == Get(query, "status")
        family_id == FamilyIdFromEvent(event, << >>)
        message == IF status = "welcome"
                   THEN IF Truthy(family_id)
                        THEN "Signed in as " \o family_id ELSE None
                   ELSE IF status = "uploaded" THEN "Photo uploaded successfully"
                   ELSE IF status = "goodbye" THEN "Signed out"
                   ELSE IF Truthy(status) THEN status
                   ELSE None
        error == Get(query, "error")
    IN IF Truthy(family_id)
       THEN CallStore("query", [route |-> "home", family_id |-> family_id,
                                message |-> message, error |-> error], FALSE)
       ELSE Respond(HtmlResponse(200, RenderHomeHtml(family_id, message, error, <<>>)))

\* _handle_session
HandleSessionNoCheck(allowed_ids, event) ==
    LET form_fields == ParseFormData(event).fields
        family_id == Strip(Or(Get(form_fields, "family_id"), ""))
    IN Respond(BuildResponse(303, "", ("Location" :> "/?status=welcome"),
                   "text/plain",
                   << "family_id=" \o Quote(family_id) \o "; "
                          \o CookieAttributes(event) >>))

HandleSession(allowed_ids, event) ==
    LET form_fields == ParseFormData(event).fields
        family_id == Strip(Or(Get(form_fields, "family_id"), ""))
        valid == ValidateFamilyId(allowed_ids, family_id)
    IN IF ~valid.ok
       THEN Respond(HtmlResponse(403, RenderHomeHtml(None, None, valid.error, <<>>)))
       ELSE Respond(BuildResponse(303, "", ("Location" :> "/?status=welcome"),
                        "text/plain",
                        << "family_id=" \o Quote(valid.value) \o "; "
                               \o CookieAttributes(event) >>))

\* _handle_logout
HandleLogout(event) ==
    Respond(BuildResponse(303, "", ("Location" :> "/?status=goodbye"),
                "text/plain",
                << "family_id=deleted; " \o CookieAttributes(event)
                       \o "; Expires=Thu, 01 Jan 1970 00:00:00 GMT; Max-Age=0" >>))

\* _handle_form_photo_upload up to its put_object
HandleFormPhotoUpload(allowed_ids, fresh, event) ==
    LET form == ParseFormData(event)
        form_fields == form.fields
        files == form.files
        auth == ExtractFamilyId(allowed_ids, event, form_fields)
        family_id == auth.value
        has_file == "photo" \in DOMAIN files /\ files["photo"].data # ""
        file_field == files["photo"]
        field(name) == LET v == Strip(Or(Get(form_fields, name), ""))
                       IN IF v = "" THEN None ELSE v
        content_type == Or(file_field.content_type, "image/jpeg")
        ext0 == ContentTypeToExtension(content_type)
        extension == IF ext0 = ""
                     THEN Or(ContentTypeToExtension("image/jpeg"), ".jpg") ELSE ext0
        photo_id == Uuid(fresh)
    IN IF ~auth.ok
       THEN Respond(HtmlResponse(403, RenderHomeHtml(None, None, auth.error, <<>>)))
       ELSE IF ~has_file
       THEN Respond(HtmlResponse(400,
                RenderHomeHtml(family_id, None, "Please choose an image to upload", <<>>)))
       ELSE CallStore("put_object",
                [ route |-> "form", family_id |-> family_id, photo_id |-> photo_id,
                  object_key |-> family_id \o "/" \o photo_id \o extension,
                  data |-> file_field.data, content_type |-> content_type,
                  title |-> field("title"), description |-> field("description"),
                  taken_at |-> field("taken_at") ], TRUE)

\* _handle_photo_content up to its get_item
HandlePhotoContent(allowed_ids, event, path) ==
    LET segments == Segments(path)
        auth == ExtractFamilyId(allowed_ids, event, << >>)
    IN IF Len(segments) < 3
       THEN Respond(JsonResponse(404, [message |-> "Not Found"]))
       ELSE IF ~auth.ok
       THEN Respond(BuildResponse(302, "", ("Location" :> "/"), "text/plain", <<>>))
       ELSE CallStore("get_item", [route |-> "content", family_id |-> auth.value,
                                   photo_id |-> Unquote(segments[2])], FALSE)

\* _list_photos up to its query
ListPhotos(family_id) ==
    CallStore("query", [route |-> "list", family_id |-> family_id], FALSE)

\* _create_presigned_upload up to its generate_presigned_url
CreatePresignedUploadRecording(family_id, fresh, event) ==
    LET photo_id == Uuid(fresh)
        object_key == family_id \o "/" \o photo_id \o ".jpg"
    IN CallStore("put_item",
           [ route |-> "record", family_id |-> family_id,
             item |-> PersistItem(family_id, photo_id, object_key,
                          None, None, None, None, 1),
             result |-> [photoId |-> photo_id, objectKey |-> object_key] ], TRUE)

CreatePresignedUpload(family_id, fresh, event) ==
    LET parsed == ExtractJsonBody(event)
        payload == parsed.payload
        content_type == IF "contentType" \in DOMAIN payload
                        THEN payload["contentType"] ELSE "image/jpeg"
        photo_id == Uuid(fresh)
    IN IF ~parsed.ok
       THEN Respond(JsonResponse(400, [message |-> parsed.error]))
       ELSE IF parsed.type # "dict"
       THEN Unhandled("AttributeError")    \* payload.get, line 602
       ELSE CallStore("presign_put",
                [ route |-> "upload_url", family_id |-> family_id,
                  photo_id |-> photo_id,
                  object_key |-> family_id \o "/" \o photo_id
                                     \o ContentTypeToExtension(content_type),
                  title |-> Get(payload, "title"),
                  content_type |-> content_type ], TRUE)

\* _record_photo_metadata up to the put_item of _persist_photo_metadata
RecordPhotoMetadata(family_id, now, event) ==
    LET parsed == ExtractJsonBody(event)
        payload == parsed.payload
    IN IF ~parsed.ok
       THEN Respond(JsonResponse(400, [message |-> parsed.error]))
       ELSE IF parsed.type \in {"int", "NoneType"}
       THEN Unhandled("TypeError")    \* issubset of a value that is not iterable, line 641
       ELSE IF parsed.type \in {"str", "list"}
               \/ ~({"photoId", "objectKey"} \subseteq DOMAIN payload)
       THEN Respond(JsonResponse(400, [message |-> "Missing required fields",
                                       required |-> <<"objectKey", "photoId">>]))
       ELSE CallStore("put_item",
                [ route |-> "record", family_id |-> family_id,
                  item |-> PersistItem(family_id, Str(payload["photoId"]),
                               Str(payload["objectKey"]), Get(payload, "title"),
                               Get(payload, "description"),
                               Get(payload, "contentType"),
                               Get(payload, "takenAt"), now),
                  result |-> [photoId |-> Str(payload["photoId"]),
                              objectKey |-> Str(payload["objectKey"])] ], FALSE)

\* handler, lines 242-256: the routes behind _extract_family_id, and the 404
\* of every other request
AuthenticatedRoutesRouteFirst(allowed_ids, now, fresh, event, method, path) ==
    LET auth == ExtractFamilyId(allowed_ids, event, << >>)
        known == \/ method = "GET" /\ path = "/photos"
                 \/ method = "POST" /\ path = "/photos/upload-url"
                 \/ method = "POST" /\ path = "/photos"
    IN IF ~known THEN Respond(JsonResponse(404, [message |-> "Not Found"]))
       ELSE IF ~auth.ok THEN Respond(JsonResponse(403, [message |-> auth.error]))
       ELSE IF method = "GET" THEN ListPhotos(auth.value)
       ELSE IF path = "/photos/upload-url"
       THEN CreatePresignedUpload(auth.value, fresh, event)
       ELSE RecordPhotoMetadata(auth.value, now, event)

AuthenticatedRoutesNoCheck(allowed_ids, now, fresh, event, method, path) ==
    LET family_id == Str(FamilyIdFromEvent(event, << >>))
    IN IF method = "GET" /\ path = "/photos" THEN ListPhotos(family_id)
       ELSE IF method = "POST" /\ path = "/photos/upload-url"
       THEN CreatePresignedUpload(family_id, fresh, event)
       ELSE IF method = "POST" /\ path = "/photos"
       THEN RecordPhotoMetadata(family_id, now, event)
       ELSE Respond(JsonResponse(404, [message |-> "Not Found"]))

AuthenticatedRoutes(allowed_ids, now, fresh, event, method, path) ==
    LET auth == ExtractFamilyId(allowed_ids, event, << >>)
    IN IF ~auth.ok THEN Respond(JsonResponse(403, [message |-> auth.error]))
       ELSE IF method = "GET" /\ path = "/photos" THEN ListPhotos(auth.value)
       ELSE IF method = "POST" /\ path = "/photos/upload-url"
       THEN CreatePresignedUpload(auth.value, fresh, event)
       ELSE IF method = "POST" /\ path = "/photos"
       THEN RecordPhotoMetadata(auth.value, now, event)
       ELSE Respond(JsonResponse(404, [message |-> "Not Found"]))

\* handler, lines 206-256
Handler(allowed_ids, now, fresh, event) ==
    LET method == event.method
        path == NormalizePath(event.rawPath, event.stage)
    IN IF method = "GET" /\ path = "/" THEN HandleHome(event)
       ELSE IF method = "POST" /\ path = "/session"
       THEN HandleSession(allowed_ids, event)
       ELSE IF method = "POST" /\ path = "/session/logout" THEN HandleLogout(event)
       ELSE IF method = "POST" /\ path = "/photos/form-upload"
       THEN HandleFormPhotoUpload(allowed_ids, fresh, event)
       ELSE IF method = "GET" /\ StartsWith(path, "/photos/") /\ EndsWith(path, "/content")
       THEN HandlePhotoContent(allowed_ids, event, path)
       ELSE IF method = "GET" /\ path = "/health"
       THEN Respond(JsonResponse(200, [status |-> "ok"]))
       ELSE AuthenticatedRoutes(allowed_ids, now, fresh, event, method, path)

-----------------------------------------------------------------------------
(* The stores *)

\* the photo ids a caller names, in the order DynamoDB sorts them (by their
\* UTF-8 bytes); every uuid drawn sorts after them, in the order drawn
CallerPhotoIds == <<"None", "p 1", "p1">>

MaxUuid == 1

SortRank(photo_id) ==
    IF \E i \in DOMAIN CallerPhotoIds : CallerPhotoIds[i] = photo_id
    THEN CHOOSE i \in DOMAIN CallerPhotoIds : CallerPhotoIds[i] = photo_id
    ELSE Len(CallerPhotoIds) + (CHOOSE n \in 1..(MaxUuid + 1) : Uuid(n) = photo_id)

\* the items of a partition, greatest sort key first (ScanIndexForward=False)
RECURSIVE Descending(_)
Descending(items) ==
    IF items = {} THEN <<>>
    ELSE LET top == CHOOSE x \in items :
                        \A y \in items : SortRank(y.PhotoId) <= SortRank(x.PhotoId)
         IN <<top>> \o Descending(items \ {top})

\* dynamodb_client.query(KeyConditionExpression="FamilyId = :family_id", ...)
Partition(tbl, family_id) == {i \in tbl : i.FamilyId = family_id}

\* _query_photos, lines 573-585: what the listing keeps of each item
ListedPhoto(item) ==
    [ photoId |-> item.PhotoId,
      objectKey |-> item.ObjectKey,
      title |-> Get(item, "Title"),
      description |-> Get(item, "Description"),
      uploadedAt |-> Get(item, "UploadedAt"),
      contentType |-> Get(item, "ContentType") ]

\* _query_photos
QueryPhotos(tbl, family_id) ==
    LET items == Descending(Partition(tbl, family_id))
    IN [i \in DOMAIN items |-> ListedPhoto(items[i])]

\* the items under a primary key: none or one
ItemsAt(tbl, family_id, photo_id) ==
    {i \in tbl : i.FamilyId = family_id /\ i.PhotoId = photo_id}

\* dynamodb_client.get_item(Key={FamilyId, PhotoId}): the item under the
\* key, as a set of none or one
FetchedByPhotoIdAlone(tbl, family_id, photo_id) == {i \in tbl : i.PhotoId = photo_id}

Fetched(tbl, family_id, photo_id) == ItemsAt(tbl, family_id, photo_id)

\* put_item(ConditionExpression="attribute_not_exists(PhotoId)"): the
\* condition holds when no item has the new item's primary key
ConditionHoldsAlways(tbl, item) == TRUE

ConditionInverted(tbl, item) == ItemsAt(tbl, item.FamilyId, item.PhotoId) # {}

ConditionHolds(tbl, item) == ItemsAt(tbl, item.FamilyId, item.PhotoId) = {}

\* put_item's write: the item takes the place of any item with its key
WrittenAlone(tbl, item) == {item}

Written(tbl, item) ==
    (tbl \ ItemsAt(tbl, item.FamilyId, item.PhotoId)) \cup {item}

-----------------------------------------------------------------------------
(* The actions *)

MaxClock == 2

Finish(p, response) ==
    /\ pc' = [pc EXCEPT ![p] = "done"]
    /\ resp' = [resp EXCEPT ![p] = response]

\* the invocation has called a store, with the outcome "ok", "conflict"
\* (ConditionalCheckFailedException) or "error" (any other ClientError)
Issue(p, operation, outcome) ==
    calls' = [calls EXCEPT ![p] = @ \cup {<<operation, outcome>>}]

\* API Gateway invokes the handler with an event; the handler runs to its
\* response or to its first store call.
Receive(p, event) ==
    /\ pc[p] = "idle"
    /\ LET step == Handler(allowed, clock, uuids + 1, event)
       IN /\ step.draws => uuids < MaxUuid
          /\ uuids' = IF step.draws THEN uuids + 1 ELSE uuids
          /\ pc' = [pc EXCEPT ![p] = step.next]
          /\ loc' = [loc EXCEPT ![p] = step.loc]
          /\ resp' = [resp EXCEPT ![p] = step.resp]
    /\ req' = [req EXCEPT ![p] = event]
    /\ UNCHANGED <<allowed, table, bucket, clock, calls, arg, res>>

\* dynamodb_client.query in _query_photos, and what _list_photos (lines
\* 588-594) or _handle_home (lines 313-321) makes of its result
Query(p) ==
    /\ pc[p] = "query"
    /\ LET l == loc[p]
           photos == QueryPhotos(table, l.family_id)
       IN \/ /\ l.route = "list"
             /\ \/ /\ Issue(p, "query", "ok")
                   /\ Finish(p, JsonResponse(200, [items |-> photos]))
                \/ /\ Issue(p, "query", "error")
                   /\ Finish(p, JsonResponse(500, [message |-> "Unable to list photos"]))
          \/ /\ l.route = "home"
             /\ \/ /\ Issue(p, "query", "ok")
                   /\ Finish(p, HtmlResponse(200,
                          RenderHomeHtml(l.family_id, l.message, l.error, photos)))
                \/ /\ Issue(p, "query", "error")
                   /\ Finish(p, HtmlResponse(200,
                          RenderHomeHtml(l.family_id, l.message,
                              Or(l.error, "Unable to load photos right now."), <<>>)))
    /\ UNCHANGED <<allowed, table, bucket, clock, uuids, req, loc, arg, res>>

\* dynamodb_client.get_item in _handle_photo_content, lines 530-547
GetItem(p) ==
    /\ pc[p] = "get_item"
    /\ LET l == loc[p]
           found == Fetched(table, l.family_id, l.photo_id)
       IN \/ /\ found = {}
             /\ Issue(p, "get_item", "ok")
             /\ Finish(p, JsonResponse(404, [message |-> "Photo not found"]))
             /\ loc' = loc
          \/ /\ found # {}
             /\ Issue(p, "get_item", "ok")
             /\ LET object_key == Get(CHOOSE i \in found : TRUE, "ObjectKey")
                IN IF ~Truthy(object_key)
                   THEN /\ Finish(p, JsonResponse(404, [message |-> "Photo not found"]))
                        /\ loc' = loc
                   ELSE /\ pc' = [pc EXCEPT ![p] = "presign_get"]
                        /\ loc' = [loc EXCEPT ![p] = l @@ [object_key |-> object_key]]
                        /\ resp' = resp
          \/ /\ Issue(p, "get_item", "error")
             /\ Finish(p, JsonResponse(500, [message |-> "Unable to fetch photo"]))
             /\ loc' = loc
    /\ UNCHANGED <<allowed, table, bucket, clock, uuids, req, arg, res>>

\* s3_client.generate_presigned_url("get_object") in _handle_photo_content,
\* lines 549-563
PresignGet(p) ==
    /\ pc[p] = "presign_get"
    /\ \/ /\ Issue(p, "presign_get", "ok")
          /\ Finish(p, BuildResponse(302, "",
                 ("Location" :> PresignedUrl("get_object", loc[p].object_key))
                     @@ ("Cache-Control" :> "private, max-age=30"),
                 "text/plain", <<>>))
       \/ /\ Issue(p, "presign_get", "error")
          /\ Finish(p, JsonResponse(500, [message |-> "Unable to fetch photo"]))
    /\ UNCHANGED <<allowed, table, bucket, clock, uuids, req, loc, arg, res>>

\* s3_client.generate_presigned_url("put_object") in
\* _create_presigned_upload, lines 609-631
PresignPut(p) ==
    /\ pc[p] = "presign_put"
    /\ LET l == loc[p]
       IN \/ /\ Issue(p, "presign_put", "ok")
             /\ Finish(p, JsonResponse(201,
                    [ photoId |-> l.photo_id, objectKey |-> l.object_key,
                      uploadUrl |-> PresignedUrl("put_object", l.object_key),
                      title |-> l.title, contentType |-> l.content_type,
                      expiresInSeconds |-> UPLOAD_URL_TTL_SECONDS ]))
          \/ /\ Issue(p, "presign_put", "error")
             /\ Finish(p, JsonResponse(500, [message |-> "Unable to create upload URL"]))
    /\ UNCHANGED <<allowed, table, bucket, clock, uuids, req, loc, arg, res>>

\* s3_client.put_object in _handle_form_photo_upload, lines 485-495, and the
\* start of _persist_photo_metadata, which reads the clock
PutObjectLost(p) ==
    /\ pc[p] = "put_object"
    /\ LET l == loc[p]
       IN /\ Issue(p, "put_object", "ok")
          /\ bucket' = bucket
          /\ pc' = [pc EXCEPT ![p] = "put_item"]
          /\ loc' = [loc EXCEPT ![p] = l @@
                        [item |-> PersistItem(l.family_id, l.photo_id, l.object_key,
                                      l.title, l.description, l.content_type,
                                      l.taken_at, clock)]]
          /\ resp' = resp
    /\ UNCHANGED <<allowed, table, clock, uuids, req, arg, res>>

PutObject(p) ==
    /\ pc[p] = "put_object"
    /\ LET l == loc[p]
       IN \/ /\ Issue(p, "put_object", "ok")
             /\ bucket' = {o \in bucket : o.Key # l.object_key}
                              \cup {[Key |-> l.object_key, Body |-> l.data,
                                     ContentType |-> l.content_type]}
             /\ pc' = [pc EXCEPT ![p] = "put_item"]
             /\ loc' = [loc EXCEPT ![p] = l @@
                           [item |-> PersistItem(l.family_id, l.photo_id, l.object_key,
                                         l.title, l.description, l.content_type,
                                         l.taken_at, clock)]]
             /\ resp' = resp
          \/ /\ Issue(p, "put_object", "error")
             /\ Finish(p, HtmlResponse(500, RenderHomeHtml(l.family_id, None,
                       "Could not store the photo. Please try again.", <<>>)))
             /\ UNCHANGED <<bucket, loc>>
    /\ UNCHANGED <<allowed, table, clock, uuids, req, arg, res>>

\* dynamodb_client.put_item in _persist_photo_metadata, lines 696-702, and
\* what _record_photo_metadata (lines 657-665) or _handle_form_photo_upload
\* (lines 507-516) makes of its outcome
PutItem(p) ==
    /\ pc[p] = "put_item"
    /\ LET l == loc[p]
           item == l.item
       IN \/ /\ ConditionHolds(table, item)
             /\ item.FamilyId # "" /\ item.PhotoId # ""
             /\ Issue(p, "put_item", "ok")
             /\ table' = Written(table, item)
             /\ IF l.route = "record"
                THEN Finish(p, JsonResponse(201, l.result))
                ELSE Finish(p, BuildResponse(303, "",
                         ("Location" :> "/?status=uploaded"), "text/plain", <<>>))
          \/ /\ ~ConditionHolds(table, item)
             /\ Issue(p, "put_item", "conflict")
             /\ table' = table
             /\ IF l.route = "record"
                THEN Finish(p, JsonResponse(409, [message |-> "Photo already recorded"]))
                ELSE Finish(p, HtmlResponse(500, RenderHomeHtml(l.family_id, None,
                         "Unable to save photo details.", <<>>)))
          \/ /\ Issue(p, "put_item", "error")
             /\ table' = table
             /\ IF l.route = "record"
                THEN Finish(p, JsonResponse(500, [message |-> "Unable to save metadata"]))
                ELSE Finish(p, HtmlResponse(500, RenderHomeHtml(l.family_id, None,
                         "Unable to save photo details.", <<>>)))
    /\ UNCHANGED <<allowed, bucket, clock, uuids, req, loc, arg, res>>

\* the handler returns its response to API Gateway
Return(p) ==
    /\ pc[p] = "done"
    /\ pc' = [pc EXCEPT ![p] = "idle"]
    /\ req' = [req EXCEPT ![p] = << >>]
    /\ loc' = [loc EXCEPT ![p] = << >>]
    /\ resp' = [resp EXCEPT ![p] = << >>]
    /\ calls' = [calls EXCEPT ![p] = {}]
    /\ UNCHANGED <<allowed, table, bucket, clock, uuids, arg, res>>

\* time passes
Tick ==
    /\ clock < MaxClock
    /\ clock' = clock + 1
    /\ UNCHANGED <<allowed, table, bucket, uuids, pc, req, loc, resp, calls, arg, res>>

-----------------------------------------------------------------------------
(* The requests *)

\* who the caller says it is: the identifier values in the x-family-id
\* header, the family_id cookie and the family_id query parameter
Callers ==
    { [h |-> None, c |-> None, q |-> None],
      [h |-> "fam1", c |-> None, q |-> None],
      [h |-> "fam2", c |-> None, q |-> None],
      [h |-> None, c |-> "fam1", q |-> None],
      [h |-> "", c |-> None, q |-> "fam2"] }

Methods == {"GET", "POST", "DELETE"}

RawPaths ==
    { "", "/", "/session", "/session/logout", "/photos/form-upload",
      "/photos/p1/content", "/photos/content", "/health", "/photos", "/photos/",
      "/photos/upload-url", "/nope", "/Photos", "/dev", "/dev/session",
      "/dev/photos", "/devices" }

RequestStages == {None, "dev"}

UrlEncoded(pairs) ==
    [ headers |-> ("content-type" :> "application/x-www-form-urlencoded"),
      body |-> [kind |-> "urlencoded", pairs |-> pairs] ]

Multipart(fields, files) ==
    [ headers |-> ("content-type" :> "multipart/form-data; boundary=xYz"),
      body |-> [kind |-> "multipart", fields |-> fields, files |-> files] ]

Json(payload) ==
    [ headers |-> ("content-type" :> "application/json"),
      body |-> [kind |-> "json", payload |-> payload] ]

Malformed ==
    [ headers |-> ("content-type" :> "application/json"),
      body |-> [kind |-> "malformed"] ]

\* a JSON text that is not an object, and the type json.loads gives it
JsonValue(text, type) ==
    [ headers |-> ("content-type" :> "application/json"),
      body |-> [kind |-> "json_value", text |-> text, type |-> type] ]

Bodiless == [headers |-> << >>, body |-> NoBody]

PhotoFile ==
    ("photo" :> [filename |-> "tom.png", content_type |-> "image/png", data |-> "PNG"])

\* the bodies sent with a request: a route that reads no body gets none
SessionBodies ==
    { UrlEncoded(<<>>), UrlEncoded(<< <<"family_id", " fam1 ">> >>),
      UrlEncoded(<< <<"family_id", "fam2">> >>) }

UploadBodies ==
    { Multipart(("title" :> " Tom "), << >>),
      Multipart(("title" :> " Tom "), PhotoFile),
      Multipart(("family_id" :> "fam1"), PhotoFile) }

RecordBodies ==
    { Malformed,
      Json(("photoId" :> "p1")),
      Json(("photoId" :> "p1") @@ ("objectKey" :> "fam1/p1.jpg")
               @@ ("title" :> "Mittens")) }

UploadUrlBodies ==
    { Malformed, Bodiless,
      Json(("contentType" :> "image/png") @@ ("title" :> "Snowball")) }

BodiesOf(method, path) ==
    IF method # "POST" THEN {Bodiless}
    ELSE IF path = "/session" THEN SessionBodies
    ELSE IF path = "/photos/form-upload" THEN UploadBodies
    ELSE IF path = "/photos" THEN RecordBodies
    ELSE IF path = "/photos/upload-url" THEN UploadUrlBodies
    ELSE {Bodiless}

Request(method, raw_path, stage, who, content) ==
    Event(method, raw_path, stage,
          IdHeaders(who.h, who.c, "x-family-id", "list") @@ content.headers,
          IdCookies(who.c, "list"), IdParams(who.q, "params"), <<>>,
          content.body)

Events ==
    UNION { { Request(m, rp, st, who, content) :
                content \in BodiesOf(m, NormalizePath(rp, st)) } :
            m \in Methods, rp \in RawPaths, st \in RequestStages, who \in Callers }

-----------------------------------------------------------------------------
(* The service: requests handled one after the other *)

\* the deployments: any identifier allowed, or fam1 alone
ServiceAllowLists == {{}, {"fam1"}}

Init ==
    /\ InitStores(ServiceAllowLists)
    /\ arg = << >>
    /\ res = << >>

Serve(P, E) ==
    \E p \in P :
        \/ \E event \in E : Receive(p, event)
        \/ Query(p)
        \/ GetItem(p)
        \/ PresignGet(p)
        \/ PresignPut(p)
        \/ PutObject(p)
        \/ PutItem(p)
        \/ Return(p)

Next == Serve({"a"}, Events) \/ Tick

Spec == Init /\ [][Next]_vars

TypeOK ==
    /\ allowed \in AllowLists
    /\ clock \in 1..MaxClock
    /\ uuids \in 0..MaxUuid
    /\ \A p \in Procs : pc[p] \in {"idle", "query", "get_item", "presign_get",
                                   "presign_put", "put_object", "put_item", "done"}

-----------------------------------------------------------------------------
(* What a request in flight is *)

Busy(p) == pc[p] # "idle"
Done(p) == pc[p] = "done"

Method(p) == req[p].method
Path(p) == NormalizePath(req[p].rawPath, req[p].stage)
Status(p) == resp[p].statusCode

\* the identifier the request carries, and whether the deployment
\* recognizes it
Carried(p) == FamilyIdFromEvent(req[p], << >>)
Recognized(id) == Truthy(id) /\ (allowed = {} \/ id \in allowed)

HardAuthRoute(method, path) ==
    \/ method = "GET" /\ path = "/photos"
    \/ method = "POST" /\ path = "/photos/upload-url"
    \/ method = "POST" /\ path = "/photos"

\* GET /photos/{id}/content
ContentRoute(method, path) ==
    method = "GET" /\ StartsWith(path, "/photos/") /\ EndsWith(path, "/content")

ListedRoute(method, path) ==
    \/ method = "GET" /\ path \in {"/", "/health"}
    \/ method = "POST" /\ path \in {"/session", "/session/logout", "/photos/form-upload"}
    \/ ContentRoute(method, path)
    \/ HardAuthRoute(method, path)

\* C1: a request to a hard-auth route that carries no recognized family
\* identifier is answered 403 at once, without a call to either store.
C1_HardAuthRejects ==
    \A p \in Procs :
        (Busy(p) /\ HardAuthRoute(Method(p), Path(p)) /\ ~Recognized(Carried(p))) =>
            /\ Done(p)
            /\ Status(p) = 403
            /\ calls[p] = {}

\* POST /photos with a well-formed body from a caller outside the allow-list
\* was answered 403.
C1_Witness ==
    /\ Done("a")
    /\ Method("a") = "POST" /\ Path("a") = "/photos"
    /\ req["a"].body.kind = "json"
    /\ allowed = {"fam1"} /\ Carried("a") = "fam2"
    /\ Status("a") = 403
    /\ table = {} /\ bucket = {}

C10_StageLinks ==
    \A p \in Procs :
        /\ (Done(p) /\ Method(p) = "GET" /\ req[p].rawPath = "/dev"
              /\ ~Truthy(Carried(p))) =>
               /\ Status(p) = 200
               /\ resp[p].body.login_action = "/dev/session"
        /\ (Done(p) /\ Method(p) = "POST" /\ req[p].rawPath = "/dev/session"
              /\ req[p].stage = "dev" /\ Status(p) = 303) =>
               resp[p].headers["Location"] = "/dev?status=welcome"

\* the routes outside the hard-auth group that need a family identifier
SessionRoute(method, path) == method = "POST" /\ path = "/session"

FormUploadRoute(method, path) == method = "POST" /\ path = "/photos/form-upload"

PhotoContentRoute(method, path) ==
    ContentRoute(method, path) /\ Len(Segments(path)) >= 3

SoftAuthRoute(method, path) ==
    \/ SessionRoute(method, path)
    \/ FormUploadRoute(method, path)
    \/ PhotoContentRoute(method, path)

\* the identifier such a route goes by: the form field of a login, the
\* header, cookie, query parameter or form field of an upload, the header,
\* cookie or query parameter of a content request
Presented(p) ==
    IF SessionRoute(Method(p), Path(p))
    THEN Strip(Or(Get(ParseFormData(req[p]).fields, "family_id"), ""))
    ELSE IF FormUploadRoute(Method(p), Path(p))
    THEN FamilyIdFromEvent(req[p], ParseFormData(req[p]).fields)
    ELSE Carried(p)

Rejected(p) ==
    /\ Busy(p) /\ SoftAuthRoute(Method(p), Path(p))
    /\ ~Recognized(Presented(p))

\* C11 as stated: on POST /session, POST /photos/form-upload and
\* GET /photos/{id}/content a missing identifier, or one outside a non-empty
\* allow-list, is answered 403, with no cookie set and no call to a store.
C11_SoftAuthRejects ==
    \A p \in Procs :
        Rejected(p) =>
            /\ Done(p)
            /\ Status(p) = 403
            /\ resp[p].cookies = << >>
            /\ calls[p] = {}

\* C11 as the code has it: such a request is answered at once with no cookie
\* set and no call to a store; the answer is 403 on POST /session and
\* POST /photos/form-upload, and a 302 redirect to "/" on
\* GET /photos/{id}/content.
C11_SoftAuthRejectsOrRedirects ==
    \A p \in Procs :
        Rejected(p) =>
            /\ Done(p)
            /\ IF PhotoContentRoute(Method(p), Path(p))
               THEN Status(p) = 302 /\ resp[p].headers["Location"] = "/"
               ELSE Status(p) = 403
            /\ resp[p].cookies = << >>
            /\ calls[p] = {}

\* A login as fam2, which the allow-list does not hold, was answered 403
\* with no cookie.
C11_Witness ==
    /\ Rejected("a") /\ Done("a")
    /\ SessionRoute(Method("a"), Path("a"))
    /\ allowed = {"fam1"} /\ Presented("a") = "fam2"
    /\ Status("a") = 403 /\ resp["a"].cookies = << >>

\* A content request without an identifier was redirected to "/".
C11_WitnessRedirect ==
    /\ Rejected("a") /\ Done("a")
    /\ PhotoContentRoute(Method("a"), Path("a"))
    /\ Presented("a") = None
    /\ Status("a") = 302

-----------------------------------------------------------------------------
(* The service as its signed-in callers use it: few routes, more data *)

DataCallers ==
    { [h |-> "fam1", c |-> None, q |-> None],
      [h |-> None, c |-> "fam2", q |-> None] }

DataRecordBodies ==
    { Json(("photoId" :> "p 1") @@ ("objectKey" :> k)) : k \in {"fam1/p1.jpg", ""} }
    \cup
    { Json(("photoId" :> "p 1") @@ ("objectKey" :> k) @@ ("title" :> "Mittens")) :
          k \in {"fam1/p1.jpg", "fam2/p1.jpg"} }

DataEvents ==
    { Request("GET", rp, None, who, Bodiless) :
          rp \in {"/", "/photos", "/photos/p1/content", "/photos/p%201/content",
                  "/photos/p%201/full/content"},
          who \in DataCallers }
    \cup { Request("POST", "/photos", None, who, content) :
               who \in DataCallers, content \in DataRecordBodies }
    \cup { Request("POST", "/photos/upload-url", None, who,
                   Json(("contentType" :> "image/png"))) : who \in DataCallers }
    \cup { Request("POST", "/photos/form-upload", None, who,
                   Multipart(("title" :> " Tom "), PhotoFile)) : who \in DataCallers }

NextData == Serve({"a"}, DataEvents) \/ Tick

SpecData == Init /\ [][NextData]_vars

\* the primary key a POST /photos in flight writes under
WritesKey(p) == <<loc[p].item.FamilyId, loc[p].item.PhotoId>>

KeyTaken(key) == \E i \in table : i.FamilyId = key[1] /\ i.PhotoId = key[2]

\* a POST /photos (with photoId and objectKey) gets its answer from the table
Answered(p) ==
    /\ pc[p] = "put_item" /\ loc[p].route = "record"
    /\ pc'[p] = "done"

\* C3 as stated: once a record is stored under (familyId, photoId), a later
\* POST /photos of the same family and photoId is answered 409 and the table
\* stays as it is.
C3_RepeatIs409 ==
    [][\A p \in Procs :
          (Answered(p) /\ KeyTaken(WritesKey(p))) =>
              (resp'[p].statusCode = 409 /\ table' = table)]_vars

\* C3 as the code has it: once a record is stored under (familyId,
\* photoId), a later POST /photos of the same family that names the photoId
\* and an objectKey is answered 409, or 500 when the table fails the call
\* for another reason; it is never answered 201, and the table stays as it
\* is.
C3_RepeatIs409Or500 ==
    [][\A p \in Procs :
          (Answered(p) /\ KeyTaken(WritesKey(p))) =>
              /\ resp'[p].statusCode =
                     IF <<"put_item", "error">> \in calls'[p] THEN 500 ELSE 409
              /\ table' = table]_vars

\* A second POST /photos for a stored key, with another title and another
\* objectKey, was answered 409 and the first record is still the one stored.
C3_Witness ==
    /\ Done("a") /\ Status("a") = 409
    /\ req["a"].body.payload = (("photoId" :> "p 1") @@ ("objectKey" :> "fam2/p1.jpg")
                                    @@ ("title" :> "Mittens"))
    /\ Carried("a") = "fam1"
    /\ \E i \in table :
           /\ i.FamilyId = "fam1" /\ i.PhotoId = "p 1"
           /\ i.ObjectKey = "fam1/p1.jpg" /\ "Title" \notin DOMAIN i

\* the photo id of GET /photos/{id}/content
ContentId(p) == Unquote(Segments(Path(p))[2])

ContentRequest(p) ==
    /\ Done(p)
    /\ ContentRoute(Method(p), Path(p)) /\ Len(Segments(Path(p))) >= 3
    /\ Recognized(Carried(p))

\* the records (F, id) with an objectKey
Stored(family_id, photo_id) ==
    {i \in table : /\ i.FamilyId = family_id /\ i.PhotoId = photo_id
                   /\ "ObjectKey" \in DOMAIN i /\ i.ObjectKey # ""}

Redirected(p, key) ==
    /\ Status(p) = 302
    /\ resp[p].headers["Location"] = PresignedUrl("get_object", key)

Failed(p) == \E c \in calls[p] : c[2] = "error"

Signed(p) == \E c \in calls[p] : c[1] = "presign_get"

\* C7 as stated: GET /photos/{id}/content from a caller authenticated as F
\* is answered 302 with the presigned download URL of the stored objectKey
\* exactly when a record (F, id) with an objectKey exists; otherwise it is
\* answered 404 and no URL is signed.
C7_RedirectIffStored ==
    \A p \in Procs :
        ContentRequest(p) =>
            LET found == Stored(Carried(p), ContentId(p))
            IN /\ found # {} => \E i \in found : Redirected(p, i.ObjectKey)
               /\ found = {} => (Status(p) = 404 /\ ~Signed(p))

\* C7 as the code has it: the answer is 302 with the presigned download URL
\* of the stored objectKey exactly when a record (F, id) with an objectKey
\* exists and neither the lookup nor the signing fails; it is 500 when one
\* of them fails; otherwise it is 404.  No URL is signed unless the record
\* exists.
C7_RedirectIffStoredUnlessFailure ==
    \A p \in Procs :
        ContentRequest(p) =>
            LET found == Stored(Carried(p), ContentId(p))
            IN /\ Failed(p) => Status(p) = 500
               /\ (~Failed(p) /\ found # {}) => \E i \in found : Redirected(p, i.ObjectKey)
               /\ (~Failed(p) /\ found = {}) => Status(p) = 404
               /\ found = {} => ~Signed(p)

\* fam2, signed in by its cookie, asked for the content of its photo "p 1"
\* and was redirected to the URL of the objectKey stored for it.
C7_Witness ==
    /\ ContentRequest("a")
    /\ Carried("a") = "fam2" /\ ContentId("a") = "p 1"
    /\ Redirected("a", "fam1/p1.jpg")
    /\ \E i \in table : i.FamilyId = "fam1" /\ i.PhotoId = "p 1"

\* The same request when only fam1 has a photo "p 1": 404, nothing signed.
C7_WitnessNotFound ==
    /\ ContentRequest("a")
    /\ Carried("a") = "fam2" /\ ContentId("a") = "p 1"
    /\ Status("a") = 404 /\ calls["a"] = {<<"get_item", "ok">>}
    /\ \E i \in table : i.FamilyId = "fam1" /\ i.PhotoId = "p 1"

SameKey(i, j) == i.FamilyId = j.FamilyId /\ i.PhotoId = j.PhotoId

\* C12: metadata records are write-once.  Whatever step the service takes,
\* every record of the table is still there afterwards with the objectKey,
\* optional fields and uploadedAt it had, and no second record shares its
\* (familyId, photoId).
C12_WriteOnce ==
    [][/\ table \subseteq table'
       /\ \A i, j \in table' : SameKey(i, j) => i = j]_vars

\* The record fam1 made with POST /photos at time 1 is still as it was after
\* fam2 uploaded a photo through the form at time 2.
C12_Witness ==
    /\ Done("a") /\ FormUploadRoute(Method("a"), Path("a")) /\ Status("a") = 303
    /\ Cardinality(table) = 2
    /\ \E i \in table : /\ i.FamilyId = "fam1" /\ i.PhotoId = "p 1"
                        /\ i.UploadedAt = Timestamp(1)
    /\ \E i \in table : /\ i.FamilyId = "fam2" /\ i.PhotoId = Uuid(1)
                        /\ i.UploadedAt = Timestamp(2)

-----------------------------------------------------------------------------
(* Recording a photo and listing it: every combination of the optional     *)
(* fields of POST /photos, then GET /photos.                               *)

Optional(key, values) == {<< >>} \cup {(key :> v) : v \in values}

RoundTripBodies ==
    { Json(("photoId" :> "p1") @@ ("objectKey" :> "fam1/p1.jpg") @@ t @@ d @@ c @@ k) :
          t \in Optional("title", {"", "Mittens"}),
          d \in Optional("description", {"Naps a lot"}),
          c \in Optional("contentType", {"image/png"}),
          k \in Optional("takenAt", {"2024-05-01"}) }

RoundTripCaller == [h |-> "fam1", c |-> None, q |-> None]

RoundTripEvents ==
    { Request("POST", "/photos", None, RoundTripCaller, content) :
          content \in RoundTripBodies }
    \cup { Request("GET", rp, None, RoundTripCaller, Bodiless) : rp \in {"/photos", "/"} }

NextRoundTrip ==
    \/ \E event \in RoundTripEvents : Receive("a", event)
    \/ Query("a")
    \/ PutItem("a")
    \/ Return("a")
    \/ Tick

SpecRoundTrip == Init /\ [][NextRoundTrip]_vars

\* the optional attributes of an item, and the field of a listed photo each
\* is returned in
OptionalFields ==
    ("Title" :> "title") @@ ("Description" :> "description") @@
    ("ContentType" :> "contentType") @@ ("TakenAt" :> "takenAt")

\* a listed photo carries the optional fields of the item, and no others
\* (a field that is missing or null counts as absent)
Carries(entry, item) ==
    \A a \in DOMAIN OptionalFields :
        IF a \in DOMAIN item
        THEN OptionalFields[a] \in DOMAIN entry /\ entry[OptionalFields[a]] = item[a]
        ELSE Get(entry, OptionalFields[a]) = None

\* C4: after a record has been persisted, GET /photos of the family returns
\* an entry for its photoId that carries every optional field supplied
\* (title, description, contentType, takenAt) with the supplied value, and
\* none that was not supplied.
C4_RoundTrip ==
    \A p \in Procs :
        (Done(p) /\ Method(p) = "GET" /\ Path(p) = "/photos" /\ Status(p) = 200) =>
            \A item \in Partition(table, Carried(p)) :
                \E n \in DOMAIN resp[p].body.items :
                    /\ resp[p].body.items[n].photoId = item.PhotoId
                    /\ Carries(resp[p].body.items[n], item)

-----------------------------------------------------------------------------
(* Two POST /photos in flight together, on an empty table *)

ConcEvents ==
    { Request("POST", "/photos", None, [h |-> "fam1", c |-> None, q |-> None],
              Json(("photoId" :> "p 1") @@ ("objectKey" :> "fam1/p1.jpg")
                       @@ ("title" :> t))) : t \in {"Mittens", "Tom"} }
    \cup
    { Request("POST", "/photos", None, [h |-> None, c |-> "fam2", q |-> None],
              Json(("photoId" :> "p 1") @@ ("objectKey" :> "fam2/p1.jpg"))) }

InitConc ==
    /\ Init
    /\ allowed = {}

NextConc ==
    \/ \E p \in Procs :
          \/ \E event \in ConcEvents : Receive(p, event)
          \/ PutItem(p)
    \/ Tick

SpecConc == InitConc /\ [][NextConc]_vars

\* both requests have their answer, and they were for the same key
BothAnswered ==
    /\ Done("a") /\ Done("b")
    /\ \A p \in Procs : "item" \in DOMAIN loc[p]
    /\ WritesKey("a") = WritesKey("b")

Winners == {p \in Procs : Status(p) = 201}

RecordsAt(key) == {i \in table : i.FamilyId = key[1] /\ i.PhotoId = key[2]}

\* C6 as stated: of two concurrent POST /photos with the same (familyId,
\* photoId), exactly one is answered 201 and the other 409, and the table
\* holds the one record written by the request answered 201.
C6_OneWinsOneConflicts ==
    BothAnswered =>
        /\ \E w \in Procs : /\ Status(w) = 201
                           /\ \A o \in Procs \ {w} : Status(o) = 409
                           /\ RecordsAt(WritesKey(w)) = {loc[w].item}

\* C6 as the code has it: of two concurrent POST /photos with the same
\* (familyId, photoId) on a table without that key, at most one is answered
\* 201; a request whose put_item fails for another reason is answered 500
\* and writes nothing; when neither fails, exactly one is answered 201 and
\* the other 409.  The table holds the record written by the request
\* answered 201, and no record for the key when there is none.
C6_AtMostOneWins ==
    BothAnswered =>
        /\ Cardinality(Winners) <= 1
        /\ \A p \in Procs :
               Status(p) = IF <<"put_item", "error">> \in calls[p] THEN 500
                           ELSE IF p \in Winners THEN 201 ELSE 409
        /\ (\A p \in Procs : <<"put_item", "error">> \notin calls[p]) =>
               Cardinality(Winners) = 1
        /\ RecordsAt(WritesKey("a")) = {loc[w].item : w \in Winners}

\* "a" arrived first and "b" wrote first: "b" was answered 201, "a" 409,
\* and the record is the one "b" sent.
C6_Witness ==
    /\ BothAnswered
    /\ Status("b") = 201 /\ Status("a") = 409
    /\ loc["a"].item.UploadedAt = Timestamp(1)
    /\ loc["b"].item.UploadedAt = Timestamp(2)
    /\ Get(loc["a"].item, "Title") = "Mittens" /\ Get(loc["b"].item, "Title") = "Tom"
    /\ table = {loc["b"].item}

-----------------------------------------------------------------------------
(* Asking for an upload URL, then listing, fetching and recording the photo *)
(* it names.  A caller learns a generated photoId from the answer that     *)
(* issued it, so it names Uuid(n) only once n ids have been drawn.         *)

UploadUrlCaller == [h |-> "fam1", c |-> None, q |-> None]

UploadUrlEvents ==
    { Request("POST", "/photos/upload-url", None, UploadUrlCaller, content) :
          content \in {Bodiless, Json(("contentType" :> "image/png") @@ ("title" :> "Snowball"))} }
    \cup { Request("GET", rp, None, UploadUrlCaller, Bodiless) :
               rp \in {"/", "/photos", "/photos/" \o Uuid(1) \o "/content"} }
    \cup { Request("POST", "/photos", None, UploadUrlCaller,
                   Json(("photoId" :> "p1") @@ ("objectKey" :> "fam1/p1.jpg"))) }

RecordIssuedEvents ==
    { Request("POST", "/photos", None, UploadUrlCaller,
              Json(("photoId" :> Uuid(n)) @@ ("objectKey" :> "fam1/" \o Uuid(n) \o ".png"))) :
          n \in 1..uuids }

NextUploadUrl ==
    \/ \E event \in UploadUrlEvents : Receive("a", event)
    \/ \E event \in RecordIssuedEvents : Receive("a", event)
    \/ Query("a")
    \/ GetItem("a")
    \/ PresignGet("a")
    \/ PresignPut("a")
    \/ PutItem("a")
    \/ Return("a")
    \/ Tick

SpecUploadUrl == Init /\ [][NextUploadUrl]_vars

\* the photo ids generated so far
Issued == {Uuid(n) : n \in 1..uuids}

\* a step of a POST /photos/upload-url in flight
UploadUrlStep(p) ==
    /\ pc[p] # "done" /\ pc'[p] # pc[p]
    /\ req'[p].method = "POST"
    /\ NormalizePath(req'[p].rawPath, req'[p].stage) = "/photos/upload-url"

\* the step records a photo under an id that had no record
Records(photo_id) ==
    /\ \A i \in table : i.PhotoId # photo_id
    /\ \E i \in table' : i.PhotoId = photo_id

\* no step of a POST /photos/upload-url changes the table; when it is
\* answered 201 the listing of the family is what it was and no record
\* exists for the new photoId
UploadUrlWritesNothing(p) ==
    UploadUrlStep(p) =>
        /\ table' = table
        /\ QueryPhotos(table', Carried(p)') = QueryPhotos(table, Carried(p)')
        /\ (pc'[p] = "done" /\ resp'[p].statusCode = 201) =>
               /\ resp'[p].body.photoId \in Issued'
               /\ \A i \in table' : i.PhotoId # resp'[p].body.photoId

\* an issued id gets its record from a POST /photos that names it, and from
\* nothing else
RecordedByPostAlone(p) ==
    \A photo_id \in Issued' :
        Records(photo_id) =>
            /\ pc[p] = "put_item" /\ loc[p].route = "record"
            /\ Method(p) = "POST" /\ Path(p) = "/photos"
            /\ req[p].body.payload["photoId"] = photo_id

\* GET /photos/{photoId}/content gets its answer for an issued id that has
\* no record
UnrecordedFetch(p) ==
    /\ pc[p] = "get_item" /\ pc'[p] = "done"
    /\ loc[p].photo_id \in Issued
    /\ \A i \in table : i.PhotoId # loc[p].photo_id

\* C13 as stated: POST /photos/upload-url leaves the metadata store
\* unchanged; after its 201 the listing of the family is what it was, and
\* GET /photos/{photoId}/content is answered 404 until a POST /photos
\* records the photoId.
C13_UploadUrlThen404 ==
    [][/\ UploadUrlWritesNothing("a")
       /\ RecordedByPostAlone("a")
       /\ UnrecordedFetch("a") => resp'["a"].statusCode = 404]_vars

\* C13 as the code has it: POST /photos/upload-url leaves the metadata store
\* unchanged; after its 201 the listing of the family is what it was, and
\* until a POST /photos records the photoId, GET /photos/{photoId}/content
\* issues no download URL: it is answered 404, or 500 when the lookup fails.
C13_UploadUrlLeavesTable ==
    [][/\ UploadUrlWritesNothing("a")
       /\ RecordedByPostAlone("a")
       /\ UnrecordedFetch("a") =>
              resp'["a"].statusCode =
                  IF <<"get_item", "error">> \in calls'["a"] THEN 500 ELSE 404]_vars

\* After the upload URL for uuid-1 was issued, with one other photo in the
\* table, GET /photos/uuid-1/content was answered 404.
C13_Witness ==
    /\ Done("a") /\ PhotoContentRoute(Method("a"), Path("a"))
    /\ ContentId("a") = Uuid(1) /\ uuids = 1
    /\ Status("a") = 404
    /\ Cardinality(table) = 1 /\ \A i \in table : i.PhotoId = "p1"

\* Once POST /photos has recorded uuid-1, the same request is redirected.
C13_WitnessRecorded ==
    /\ Done("a") /\ PhotoContentRoute(Method("a"), Path("a"))
    /\ ContentId("a") = Uuid(1)
    /\ Status("a") = 302
    /\ \E i \in table : i.PhotoId = Uuid(1)

-----------------------------------------------------------------------------
(* Bad requests from a signed-in caller, among good ones *)

BadRequestCaller == [h |-> "fam1", c |-> None, q |-> None]

EmptyFile ==
    ("photo" :> [filename |-> "tom.png", content_type |-> "image/png", data |-> ""])

BadRecordBodies ==
    { Malformed, Bodiless,
      Json(("photoId" :> "p1")), Json(("objectKey" :> "fam1/p1.jpg")),
      JsonValue("null", "NoneType"), JsonValue("5", "int"),
      JsonValue("\"p1\"", "str"), JsonValue("[1]", "list") }

BadRequestEvents ==
    { Request("POST", "/photos", None, BadRequestCaller, content) :
          content \in BadRecordBodies
                        \cup {Json(("photoId" :> "p1") @@ ("objectKey" :> "fam1/p1.jpg"))} }
    \cup { Request("POST", "/photos/upload-url", None, BadRequestCaller, content) :
               content \in {Malformed, Json(("contentType" :> "image/png"))} }
    \cup { Request("POST", "/photos/form-upload", None, BadRequestCaller,
                   Multipart(("title" :> " Tom "), files)) :
               files \in {<< >>, EmptyFile, PhotoFile} }
    \cup { Request("GET", rp, None, BadRequestCaller, Bodiless) : rp \in {"/", "/photos"} }

NextBadRequest ==
    \/ \E event \in BadRequestEvents : Receive("a", event)
    \/ Query("a")
    \/ PresignPut("a")
    \/ PutObject("a")
    \/ PutItem("a")
    \/ Return("a")
    \/ Tick

SpecBadRequest == Init /\ [][NextBadRequest]_vars

\* the body is not JSON
MalformedJson(event) == event.body.kind \notin {"none", "json", "json_value"}

\* the body is JSON (or empty) and has no photoId or no objectKey
LacksRequired(event) ==
    \/ event.body.kind \in {"none", "json_value"}
    \/ /\ event.body.kind = "json"
       /\ ~({"photoId", "objectKey"} \subseteq DOMAIN event.body.payload)

\* the form carries no file, or an empty one
NoFile(event) ==
    LET files == ParseFormData(event).files
    IN "photo" \notin DOMAIN files \/ files["photo"].data = ""

BadRequest(event) ==
    LET method == event.method
        path == NormalizePath(event.rawPath, event.stage)
    IN \/ /\ method = "POST" /\ path \in {"/photos", "/photos/upload-url"}
          /\ MalformedJson(event)
       \/ /\ method = "POST" /\ path = "/photos"
          /\ LacksRequired(event)
       \/ /\ FormUploadRoute(method, path)
          /\ NoFile(event)

\* C14: a bad request of a signed-in caller -- POST /photos or
\* POST /photos/upload-url with a malformed JSON body, POST /photos with a
\* body that lacks photoId or objectKey, POST /photos/form-upload with no
\* file or an empty one -- is answered 400 at once, and the table and the
\* bucket are left as they were.
C14_BadRequestIs400 ==
    [][\A p \in Procs :
          (pc[p] = "idle" /\ pc'[p] # "idle" /\ BadRequest(req'[p])) =>
              /\ pc'[p] = "done"
              /\ resp'[p].statusCode = 400
              /\ table' = table /\ bucket' = bucket]_vars

\* the same for every bad request but a POST /photos whose JSON body is a
\* number or null
C14_BadRequestIs400UnlessScalar ==
    [][\A p \in Procs :
          ( /\ pc[p] = "idle" /\ pc'[p] # "idle" /\ BadRequest(req'[p])
            /\ ~( req'[p].body.kind = "json_value"
                  /\ req'[p].body.type \in {"int", "NoneType"} ) ) =>
              /\ pc'[p] = "done"
              /\ resp'[p].statusCode = 400
              /\ table' = table /\ bucket' = bucket]_vars

-----------------------------------------------------------------------------
(* The two writes of POST /photos/form-upload *)

\* a form upload that got as far as its first store call
FormUpload(p) ==
    /\ Busy(p) /\ FormUploadRoute(Method(p), Path(p))
    /\ "route" \in DOMAIN loc[p]

ObjectStored(key) == \E o \in bucket : o.Key = key

RecordStored(family_id, photo_id) == ItemsAt(table, family_id, photo_id) # {}

Called(p, operation) == \E c \in calls[p] : c[1] = operation

\* the records the form upload made: those under a generated photo id
FormRecords == {i \in table : i.PhotoId \in Issued}

\* C15: in POST /photos/form-upload the object is written before the
\* metadata record.  The table is called only after put_object succeeded;
\* when put_object fails the answer is 500 and no record is written; when
\* the metadata write fails the answer is 500 and the object stays in the
\* bucket; the answer is 303 exactly when both writes succeeded; and every
\* record this route created names an object that is in the bucket.
C15_ObjectBeforeRecord ==
    /\ \A p \in Procs :
          FormUpload(p) =>
              LET l == loc[p] IN
              /\ (pc[p] = "put_object") =>
                     calls[p] = {} /\ ~RecordStored(l.family_id, l.photo_id)
              /\ (pc[p] = "put_item" \/ Called(p, "put_item")) =>
                     /\ <<"put_object", "ok">> \in calls[p]
                     /\ ObjectStored(l.object_key)
              /\ (Done(p) /\ <<"put_object", "error">> \in calls[p]) =>
                     /\ Status(p) = 500
                     /\ ~Called(p, "put_item")
                     /\ ~RecordStored(l.family_id, l.photo_id)
              /\ (Done(p) /\ Called(p, "put_item")
                     /\ <<"put_item", "ok">> \notin calls[p]) =>
                     /\ Status(p) = 500
                     /\ ObjectStored(l.object_key)
                     /\ ~RecordStored(l.family_id, l.photo_id)
              /\ Done(p) =>
                     (Status(p) = 303 <=>
                         {<<"put_object", "ok">>, <<"put_item", "ok">>} \subseteq calls[p])
              /\ (Done(p) /\ Status(p) = 303) =>
                     \E i \in ItemsAt(table, l.family_id, l.photo_id) :
                         i.ObjectKey = l.object_key
    /\ \A i \in FormRecords : ObjectStored(i.ObjectKey)

\* The object was stored, the metadata write failed: the upload was answered
\* 500, the object is in the bucket and there is no record for it.
C15_Witness ==
    /\ FormUpload("a") /\ Done("a") /\ Status("a") = 500
    /\ calls["a"] = {<<"put_object", "ok">>, <<"put_item", "error">>}
    /\ ObjectStored(loc["a"].object_key)
    /\ table = {}

\* Both writes succeeded: 303, and the record names the stored object.
C15_WitnessUploaded ==
    /\ FormUpload("a") /\ Done("a") /\ Status("a") = 303
    /\ \E i \in FormRecords : ObjectStored(i.ObjectKey)

-----------------------------------------------------------------------------
(* Whose objects the records name *)

OwnPrefix(family_id, object_key) == StartsWith(object_key, family_id \o "/")

\* C16: tenant isolation of object keys.  Every record of family F has an
\* objectKey that begins with F followed by "/", and a download URL issued
\* by GET /photos/{id}/content to a caller authenticated as F is for an
\* object under F's own prefix.
C16_TenantIsolation ==
    /\ \A i \in table : OwnPrefix(i.FamilyId, i.ObjectKey)
    /\ \A p \in Procs :
          (ContentRequest(p) /\ Status(p) = 302) =>
              \E i \in Stored(Carried(p), ContentId(p)) :
                  /\ Redirected(p, i.ObjectKey)
                  /\ OwnPrefix(Carried(p), i.ObjectKey)

\* the same of the records the form upload made, whose objectKey the server
\* builds
C16_FormRecordsIsolated ==
    \A i \in FormRecords : OwnPrefix(i.FamilyId, i.ObjectKey)

-----------------------------------------------------------------------------
(* Reads of the table and the allow-list *)

\* the request presents an identifier that a non-empty allow-list does not hold
Outsider(p) ==
    /\ Busy(p)
    /\ allowed # {}
    /\ Truthy(Presented(p)) /\ Presented(p) \notin allowed

HomeRoute(method, path) == method = "GET" /\ path = "/"

\* C17: with a non-empty allow-list, no route reads or returns photo records
\* for an identifier outside it: the table is neither queried nor looked up
\* for such a request, and GET / carrying such an identifier renders the
\* login page.
C17_NoReadOutsideAllowList ==
    \A p \in Procs :
        Outsider(p) =>
            /\ pc[p] \notin {"query", "get_item"}
            /\ ~Called(p, "query") /\ ~Called(p, "get_item")
            /\ HomeRoute(Method(p), Path(p)) =>
                   (Done(p) /\ Status(p) = 200 /\ resp[p].body.view = "login")

\* the same on every route but GET /
C17_NoReadOutsideAllowListButHome ==
    \A p \in Procs :
        (Outsider(p) /\ ~HomeRoute(Method(p), Path(p))) =>
            /\ pc[p] \notin {"query", "get_item"}
            /\ ~Called(p, "query") /\ ~Called(p, "get_item")

-----------------------------------------------------------------------------
(* Signing in, coming back with the cookie, signing out.  "a" is the login *)
(* or logout request, whose response the browser holds; "b" is the request *)
(* the browser sends next.                                                 *)

\* the part of s before the first ch (all of s when it has none), and the
\* part after it
RECURSIVE Before(_, _)
Before(s, ch) ==
    IF Len(s) = 0 \/ SubSeq(s, 1, 1) = ch THEN ""
    ELSE SubSeq(s, 1, 1) \o Before(DropPrefix(s, 1), ch)

After(s, ch) ==
    IF Len(Before(s, ch)) >= Len(s) THEN ""
    ELSE DropPrefix(s, Len(Before(s, ch)) + 1)

\* what a browser sends back of a cookie the response set: its name=value,
\* without the attributes
SentBack(set_cookie) == Before(set_cookie, ";")

\* SimpleCookie.load of a raw cookie "name=value": the morsel's value is the
\* text after "=", as it stands
Morsels(raw_cookie) == << <<Before(raw_cookie, "="), After(raw_cookie, "=")>> >>

\* the deployments: any identifier allowed, or two families
SessionAllowLists == {{}, {"fam1", "the smiths"}}

InitSession ==
    /\ InitStores(SessionAllowLists)
    /\ arg = << >>
    /\ res = << >>

Https == ("x-forwarded-proto" :> "https")

SessionEvents ==
    { Event("POST", "/session", None, proto @@ UrlEncoded(pairs).headers,
            <<>>, << >>, <<>>, UrlEncoded(pairs).body) :
          proto \in {<< >>, Https},
          pairs \in { <<>>, << <<"family_id", "fam1">> >>,
                      << <<"family_id", " the smiths ">> >>,
                      << <<"family_id", "fam2">> >> } }
    \cup { Event("POST", "/session/logout", None, << >>, <<>>, << >>, <<>>, NoBody) }

LogoutRoute(method, path) == method = "POST" /\ path = "/session/logout"

SignedIn(p) ==
    Done(p) /\ SessionRoute(Method(p), Path(p)) /\ Status(p) = 303

SignedOut(p) ==
    Done(p) /\ LogoutRoute(Method(p), Path(p))

\* the cookies the browser holds after the response of "a": the one a
\* login issued; none after a logout (Max-Age=0) or a refused login
BrowserCookies ==
    IF SignedIn("a") /\ resp["a"].cookies # <<>>
    THEN << Morsels(SentBack(resp["a"].cookies[1])) >>
    ELSE <<>>

FollowUps ==
    { Event("GET", rp, None, << >>, BrowserCookies, << >>, <<>>, NoBody) :
          rp \in {"/photos", "/"} }

NextSession ==
    \/ pc["b"] = "idle" /\ \E event \in SessionEvents : Receive("a", event)
    \/ pc["b"] = "idle" /\ Return("a")
    \/ Done("a") /\ \E event \in FollowUps : Receive("b", event)
    \/ Query("b")
    \/ Return("b")
    \/ Tick

SpecSession == InitSession /\ [][NextSession]_vars

\* the request after a login carries the cookie the login issued, is
\* resolved to the identifier that signed in and passes validation
ComesBackAs(family_id) ==
    Busy("b") =>
        LET auth == ExtractFamilyId(allowed, req["b"], << >>) IN
        /\ req["b"].cookies = << Morsels(SentBack(resp["a"].cookies[1])) >>
        /\ req["b"].headers = << >> /\ req["b"].queryStringParameters = << >>
        /\ auth.ok /\ auth.value = family_id
        /\ Path("b") = "/photos" =>
               ("family_id" \in DOMAIN loc["b"] /\ loc["b"].family_id = family_id)

\* the logout expires the cookie, and the request after it, with no cookie,
\* is unauthenticated
Expired ==
    /\ Status("a") = 303
    /\ Len(resp["a"].cookies) = 1
    /\ StartsWith(resp["a"].cookies[1], "family_id=")
    /\ EndsWith(resp["a"].cookies[1], "Max-Age=0")
    /\ Busy("b") =>
           /\ req["b"].cookies = <<>>
           /\ ~ExtractFamilyId(allowed, req["b"], << >>).ok
           /\ Path("b") = "/photos" => (Done("b") /\ Status("b") = 403)

\* C18: session round trip.  After POST /session succeeded for a permitted
\* identifier F, the next request, carrying exactly the family_id cookie the
\* login issued and no header or query identifier, is resolved to F and
\* passes validation; after POST /session/logout the cookie is expired
\* (Max-Age=0) and the next request, without a cookie, is unauthenticated.
C18_SessionRoundTrip ==
    /\ SignedIn("a") => (Len(resp["a"].cookies) = 1 /\ ComesBackAs(Presented("a")))
    /\ SignedOut("a") => Expired

\* the same for the identifiers urllib.parse.quote leaves as they are
C18_SessionRoundTripUnescaped ==
    /\ (SignedIn("a") /\ Quote(Presented("a")) = Presented("a")) =>
           (Len(resp["a"].cookies) = 1 /\ ComesBackAs(Presented("a")))
    /\ SignedOut("a") => Expired

=============================================================================
